---- MODULE Spec2Model ----
(***************************************************************************)
(* LiterateAI speech-transcript alignment and scoring pipeline.            *)
(*                                                                         *)
(* Five state machines share this module:                                  *)
(*   SpecAlign - the word-comparison routines applied to a reference text  *)
(*               and a spoken text (AdvancedSpeechEngine.analyzeWordLevel, *)
(*               ReadingPractice.compareTextWithSpeech, ...);              *)
(*   SpecSim   - the similarity routines applied to a pair of words;       *)
(*   SpecScore - the scoring routines applied to a segment;                *)
(*   Spec      - AdvancedSpeechEngine driven by the browser's              *)
(*               SpeechRecognition object and by its caller;               *)
(*   SpecTimer - Spec with a clock.                                        *)
(*                                                                         *)
(* A character is a one-character string, a word a sequence of characters, *)
(* a text a sequence of raw words (the maximal non-blank runs of the       *)
(* JavaScript string, which has no leading or trailing blank).             *)
(* Indices are 1-based here and 0-based in the source.                     *)
(* A fraction is a record [num, den] with den > 0; den = 0 stands for the  *)
(* JavaScript value NaN (0/0).                                             *)
(***************************************************************************)
EXTENDS Integers, Sequences, FiniteSets, TLC

VARIABLES
    \* ---- SpecAlign ----
    targetText,      \* the reference text handed to a comparison routine
    spokenText,      \* the transcript handed to a comparison routine
    outcome,         \* what the last routine run on them produced
    \* ---- Spec: AdvancedSpeechEngine ----
    speechRecognition, \* this.speechRecognition: the recognizer, or null
    isListening,     \* this.isListening
    currentSession,  \* this.currentSession: null or the session record
    speechData,      \* this.speechData: the recorded final segments
    \* ---- Spec: the browser's SpeechRecognition object ----
    recState,        \* "inactive", "starting", "running" or "stopping"
    recResults,      \* its cumulative SpeechRecognitionResultList
    queue,           \* its events queued as tasks, not yet dispatched
    \* ---- Spec: bookkeeping of the run ----
    nextId,          \* sessions created so far (generateSessionId)
    nextRid,         \* results the recognizer produced so far
    stopCalled,      \* stopListening was called since the last startListening
    routedFinals,    \* results handed to processFinalResult since the last
                     \* startListening or cleanup, in dispatch order
    lastOp,          \* the last call or handler run, whether it threw, and
                     \* the callbacks it fired
    \* ---- SpecTimer: the clock of the run ----
    silence,         \* ticks the recognizer has been capturing since the
                     \* engine last received a hypothesis or was started
    \* ---- SpecSim ----
    wordA,           \* the first word handed to a similarity routine
    wordB,           \* the second word handed to a similarity routine
    \* ---- SpecScore ----
    segment,         \* the speech segment handed to a scoring routine
    analysis         \* the analysis handed to it with the segment

alignVars == <<targetText, spokenText, outcome>>

engineVars == <<speechRecognition, isListening, currentSession, speechData>>

recognizerVars == <<recState, recResults, queue>>

runVars == <<nextId, nextRid, stopCalled, routedFinals, lastOp>>

simVars == <<wordA, wordB>>

scoreVars == <<segment, analysis>>

pureVars == <<alignVars, simVars, scoreVars>>

machineVars == <<engineVars, recognizerVars, runVars, silence>>

vars == <<targetText, spokenText, outcome,
          speechRecognition, isListening, currentSession, speechData,
          recState, recResults, queue,
          nextId, nextRid, stopCalled, routedFinals, lastOp,
          silence, wordA, wordB, segment, analysis>>

-----------------------------------------------------------------------------
(* Bounds                                                                  *)

MaxTargetWords == 2
MaxSpokenWords == 3
MaxSessions == 2
MaxResults == 3
MaxQueue == 2

MaxWordLen == 3

MaxSegmentWords == 4

\* the no-speech window of the specification, in ticks of the clock
NoSpeechTimeout == 2

-----------------------------------------------------------------------------
(* Characters, words and texts                                             *)

Null == "null"

\* "".toLowerCase() restricted to the upper-case letters the texts use
ToLowerCase(c) ==
    CASE c = "T" -> "t"
      [] c = "C" -> "c"
      [] OTHER   -> c

\* the characters of the texts that are not matched by \w
NonWordChars == {".", ",", "-", "!"}

IsWordChar(c) == c \notin NonWordChars

LowerWord(w) == [i \in 1..Len(w) |-> ToLowerCase(w[i])]

\* word.replace(/[^\w]/g, '')
StripNonWord(w) == SelectSeq(w, IsWordChar)

NonEmptyWord(w) == Len(w) > 0

\* text.split(/\s+/): the empty string splits into one empty word
SplitWhitespace(text) == IF text = <<>> THEN << <<>> >> ELSE text

\* tokenizeText: lower-case, drop the non-word characters, split on blanks,
\* drop the empty words
tokenizeText(text) ==
    SelectSeq([i \in 1..Len(text) |-> StripNonWord(LowerWord(text[i]))],
              NonEmptyWord)

Min2(a, b) == IF a <= b THEN a ELSE b

Max2(a, b) == IF a >= b THEN a ELSE b

Min3(a, b, c) == Min2(a, Min2(b, c))

\* One row matrix[j] of the Levenshtein matrix, filled left to right from
\* the row above it; acc holds matrix[j][0 .. Len(acc)-1].
RECURSIVE LevRow(_, _, _, _)
LevRow(prev, ch, str1, acc) ==
    IF Len(acc) = Len(str1) + 1
    THEN acc
    ELSE LET i         == Len(acc)
             indicator == IF str1[i] = ch THEN 0 ELSE 1
         IN  LevRow(prev, ch, str1,
                    Append(acc, Min3(acc[i] + 1,
                                     prev[i + 1] + 1,
                                     prev[i] + indicator)))

RECURSIVE LevRows(_, _, _, _)
LevRows(str1, str2, j, prev) ==
    IF j > Len(str2)
    THEN prev[Len(str1) + 1]
    ELSE LevRows(str1, str2, j + 1, LevRow(prev, str2[j], str1, <<j>>))

levenshteinDistance(str1, str2) ==
    LevRows(str1, str2, 1, [i \in 1..(Len(str1) + 1) |-> i - 1])

\* fractions
Frac(n, d) == [num |-> n, den |-> d]

One == Frac(1, 1)

Zero == Frac(0, 1)

\* f > p/q
FracGT(f, p, q) == f.den > 0 /\ f.num * q > p * f.den

\* f = p/q
FracEQ(f, p, q) == f.den > 0 /\ f.num * q = p * f.den

\* f >= p/q
FracGE(f, p, q) == f.den > 0 /\ f.num * q >= p * f.den

\* calculateWordSimilarity dividing by the length of its first argument
calculateWordSimilarity_byFirst(word1, word2) ==
    LET distance == levenshteinDistance(word1, word2)
        length   == Len(word1)
    IN  IF length = 0 THEN One ELSE Frac(length - distance, length)

\* AdvancedSpeechEngine.calculateWordSimilarity
calculateWordSimilarity(word1, word2) ==
    LET distance  == levenshteinDistance(word1, word2)
        maxLength == Max2(Len(word1), Len(word2))
    IN  IF maxLength = 0 THEN One ELSE Frac(maxLength - distance, maxLength)

\* AdvancedSpeechEngine.compareWords
compareWords(target, spoken) ==
    IF target = spoken THEN "perfect"
    ELSE IF FracGT(calculateWordSimilarity(target, spoken), 4, 5) THEN "close"
    ELSE IF FracGT(calculateWordSimilarity(target, spoken), 1, 2) THEN "similar"
    ELSE "different"

\* What a routine yields when it calls a method its class does not define
\* (a TypeError: "this.<method> is not a function").
Threw(method) == [threw |-> method, entries |-> <<>>]

\* the fields of one wordResult that analyzeWordLevel evaluates before it
\* reaches phonemeMatch
wordResult(targetWords, spokenWords, i) ==
    LET targetWord == IF i <= Len(targetWords) THEN targetWords[i] ELSE <<>>
        spokenWord == IF i <= Len(spokenWords) THEN spokenWords[i] ELSE <<>>
    IN  [index      |-> i,
         targetWord |-> targetWord,
         spokenWord |-> spokenWord,
         status     |-> compareWords(targetWord, spokenWord),
         similarity |-> calculateWordSimilarity(targetWord, spokenWord)]

\* AdvancedSpeechEngine.analyzeWordLevel.  The class defines neither
\* comparePhonemes nor generateWordSuggestions, so building the first
\* wordResult throws; only a comparison of two texts without any word
\* returns (the empty list).
analyzeWordLevel(target, spoken) ==
    LET targetWords == tokenizeText(target)
        spokenWords == tokenizeText(spoken)
        maxLength   == Max2(Len(targetWords), Len(spokenWords))
    IN  IF maxLength > 0
        THEN Threw("comparePhonemes")
        ELSE [threw |-> "", entries |-> <<>>]

\* PronunciationAnalyzer.calculateSimilarity: a placeholder, 0.85
calculateSimilarity(str1, str2) == Frac(85, 100)

\* PronunciationAnalyzer.calculateAccuracy: Math.max(0, Math.min(1, s))
calculateAccuracy(target, spoken) ==
    LET similarity == calculateSimilarity(target, spoken)
    IN  IF similarity.num < 0 THEN Zero
        ELSE IF similarity.num > similarity.den THEN One
        ELSE similarity

\* ReadingPractice.calculateWordSimilarity
RP_calculateWordSimilarity(word1, word2) ==
    IF word1 = word2 THEN One
    ELSE LET maxLength == Max2(Len(word1), Len(word2))
         IN  IF maxLength = 0 THEN One
             ELSE Frac(maxLength - levenshteinDistance(word1, word2), maxLength)

\* ComprehensiveEducationSystem.calculateWordSimilarity
CES_calculateWordSimilarity(word1, word2) ==
    IF word1 = word2 THEN One
    ELSE LET maxLength == Max2(Len(word1), Len(word2))
         IN  IF maxLength = 0 THEN One
             ELSE Frac(maxLength - levenshteinDistance(word1, word2), maxLength)

\* Math.max(0, f); Math.max(0, NaN) is NaN
MaxZero(f) == IF f.den > 0 /\ f.num < 0 THEN Zero ELSE f

\* PronunciationAnalyzer.calculatePhoneticSimilarity of the AI engine:
\* (maxLength - distance) / maxLength, 0/0 for two empty arguments
PA_calculatePhoneticSimilarity(target, spoken) ==
    LET maxLength == Max2(Len(target), Len(spoken))
        distance  == levenshteinDistance(target, spoken)
    IN  MaxZero(Frac(maxLength - distance, maxLength))

\* MultilingualPronunciationEngine.calculatePhoneticSimilarity:
\* 1 - distance / maxLength, where 0/0 is NaN and so is 1 - NaN
ML_calculatePhoneticSimilarity(targetWord, spokenWord) ==
    LET maxLength  == Max2(Len(targetWord), Len(spokenWord))
        distance   == levenshteinDistance(targetWord, spokenWord)
        similarity == IF maxLength = 0 THEN Frac(0, 0)
                      ELSE Frac(maxLength - distance, maxLength)
    IN  MaxZero(similarity)

\* the feedback[index] that compareTextWithSpeech writes for one reference
\* word; present = FALSE when the if-branch is skipped and nothing is written
feedbackEntry(targetWords, spokenWords, index) ==
    LET targetWord      == targetWords[index]
        cleanTargetWord == StripNonWord(targetWord)
        spokenWord      == IF index <= Len(spokenWords)
                           THEN spokenWords[index] ELSE <<>>
        cleanSpokenWord == StripNonWord(spokenWord)
        similarity      == RP_calculateWordSimilarity(cleanTargetWord,
                                                      cleanSpokenWord)
    IN  IF cleanSpokenWord # <<>> /\ cleanTargetWord # <<>>
        THEN [present    |-> TRUE,
              index      |-> index,
              word       |-> targetWord,
              correct    |-> FracGT(similarity, 4, 5),
              spoken     |-> spokenWord,
              similarity |-> similarity]
        ELSE [present    |-> FALSE,
              index      |-> index,
              word       |-> targetWord,
              correct    |-> FALSE,
              spoken     |-> <<>>,
              similarity |-> Zero]

IsPresent(e) == e.present

\* ReadingPractice.compareTextWithSpeech: the feedback object (its entries
\* in index order) and the values given to setScore and setTotalWords
compareTextWithSpeech(target, spoken) ==
    LET targetWords == SplitWhitespace([i \in 1..Len(target) |-> LowerWord(target[i])])
        spokenWords == SplitWhitespace([i \in 1..Len(spoken) |-> LowerWord(spoken[i])])
        feedback    == SelectSeq([i \in 1..Len(targetWords) |->
                                    feedbackEntry(targetWords, spokenWords, i)],
                                 IsPresent)
    IN  [feedback   |-> feedback,
         score      |-> Cardinality({i \in 1..Len(feedback) : feedback[i].correct}),
         totalWords |-> Len(targetWords)]

\* the accuracy the component derives from score and totalWords
\* (calculateSessionStats: totalWords > 0 ? score / totalWords : 0)
sessionAccuracy(score, totalWords) ==
    IF totalWords > 0 THEN Frac(score, totalWords) ELSE Zero

\* ComprehensiveEducationSystem.analyzePronunciation.  analyzeWordPronunciation
\* calls generateWordSuggestions and the method itself calls analyzePhonemes;
\* the class defines neither, so every call throws.
analyzePronunciation(target, spoken) ==
    LET targetWords == tokenizeText(target)
    IN  IF Len(targetWords) > 0
        THEN Threw("generateWordSuggestions")
        ELSE Threw("analyzePhonemes")

-----------------------------------------------------------------------------
(* AdvancedSpeechEngine: what its handlers compute                         *)

W_The  == <<"T", "h", "e">>
W_the  == <<"t", "h", "e">>
W_cat  == <<"c", "a", "t">>
W_sat  == <<"s", "a", "t">>
W_on   == <<"o", "n">>
W_mat  == <<"m", "a", "t">>
W_matP == <<"m", "a", "t", ".">>
W_big  == <<"b", "i", "g">>
W_dash == <<"-">>
W_dog  == <<"d", "o", "g">>

\* the options startListening is called with (targetText, realTimeAnalysis)
SessionOptions ==
    {[targetText |-> <<W_The, W_cat>>, realTimeAnalysis |-> TRUE],
     [targetText |-> <<W_The, W_dog>>, realTimeAnalysis |-> TRUE],
     [targetText |-> <<>>,             realTimeAnalysis |-> FALSE]}

\* the first alternative of a recognition result: its transcript and its
\* confidence in percent (Chrome reports 0 for interim results)
Hypotheses ==
    {[transcript |-> <<W_The, W_cat>>, confidence |-> 90],
     [transcript |-> <<>>,             confidence |-> 0]}

\* event.error of the recognizer's error event
ErrorCodes == {"no-speech", "audio-capture", "not-allowed", "network", "aborted"}

NoThrow == ""

\* this.currentSession = null, as a record: no session has id 0
NullSession == [id |-> 0, targetText |-> <<>>, realTimeAnalysis |-> FALSE]

\* calculateSegmentDuration: a placeholder
calculateSegmentDuration == 1000

\* the result of running a handler: the new speechData, the method whose
\* absence (or the null it dereferenced) made it throw, the callbacks fired
Ran(name, data, threw, callbacks) ==
    [name |-> name, speechData |-> data, threw |-> threw, callbacks |-> callbacks]

\* analyzeSpeeches: reads this.currentSession.targetText, then evaluates the
\* fields of the analysis in order.  analyzeWordLevel throws unless neither
\* text has a word, and then analyzePhonemes calls calculatePhonemeAccuracy,
\* which the class does not define: no call returns.
analyzeSpeeches(speechSegment) ==
    IF currentSession = NullSession
    THEN "currentSession.targetText"
    ELSE LET wordLevelAnalysis ==
                 analyzeWordLevel(currentSession.targetText,
                                  speechSegment.primary.transcript)
         IN  IF wordLevelAnalysis.threw # NoThrow
             THEN wordLevelAnalysis.threw
             ELSE "calculatePhonemeAccuracy"

\* the speechSegment processFinalResult builds from a result
SpeechSegment(result) ==
    [rid          |-> result.rid,
     alternatives |-> <<[transcript |-> result.transcript,
                         confidence |-> result.confidence]>>,
     primary      |-> [transcript |-> result.transcript,
                       confidence |-> result.confidence],
     isFinal      |-> TRUE,
     duration     |-> calculateSegmentDuration]

\* processFinalResult with unshift in place of push
processFinalResult_unshift(result) ==
    LET speechSegment == SpeechSegment(result)
        pushed        == <<speechSegment>> \o speechData
        threw         == analyzeSpeeches(speechSegment)
    IN  Ran("processFinalResult", pushed, threw,
            IF threw = NoThrow THEN <<"onSpeechAnalyzed">> ELSE <<>>)

\* processFinalResult: push the segment, analyse it, fire onSpeechAnalyzed
processFinalResult(result) ==
    LET speechSegment == SpeechSegment(result)
        pushed        == Append(speechData, speechSegment)
        threw         == analyzeSpeeches(speechSegment)
    IN  Ran("processFinalResult", pushed, threw,
            IF threw = NoThrow THEN <<"onSpeechAnalyzed">> ELSE <<>>)

\* processInterimResult recording the interim hypothesis as a segment
processInterimResult_records(result) ==
    IF currentSession = NullSession
    THEN Ran("processInterimResult", speechData,
             "currentSession.realTimeAnalysis", <<>>)
    ELSE Ran("processInterimResult", Append(speechData, SpeechSegment(result)),
             NoThrow,
             IF currentSession.realTimeAnalysis
             THEN <<"onInterimAnalysis">> ELSE <<>>)

\* processInterimResult: quick analysis and onInterimAnalysis, when the
\* session asks for real-time analysis
processInterimResult(result) ==
    IF currentSession = NullSession
    THEN Ran("processInterimResult", speechData,
             "currentSession.realTimeAnalysis", <<>>)
    ELSE Ran("processInterimResult", speechData, NoThrow,
             IF currentSession.realTimeAnalysis
             THEN <<"onInterimAnalysis">> ELSE <<>>)

\* processRecognitionResults: only the latest result of the event's list is
\* looked at (this.realTimeAnalysis is always true)
processRecognitionResults(event) ==
    LET latestResult == event.results[Len(event.results)]
    IN  IF latestResult.isFinal
        THEN processFinalResult(latestResult)
        ELSE processInterimResult(latestResult)

\* handleRecognitionError dropping the recorded segments
handleRecognitionError_clears(event) ==
    Ran("handleRecognitionError", <<>>, NoThrow,
        <<"onFeedback", "onRecognitionError">>)

\* handleRecognitionError(event): the class defines the handlers of
\* no-speech and audio-capture only; the others throw before
\* onRecognitionError is fired. speechData is not touched
handleRecognitionError(event) ==
    CASE event.error \in {"no-speech", "audio-capture"} ->
            Ran("handleRecognitionError", speechData, NoThrow,
                <<"onFeedback", "onRecognitionError">>)
      [] event.error = "not-allowed" ->
            Ran("handleRecognitionError", speechData, "handlePermissionError", <<>>)
      [] event.error = "network" ->
            Ran("handleRecognitionError", speechData, "handleNetworkError", <<>>)
      [] event.error = "aborted" ->
            Ran("handleRecognitionError", speechData, "handleAbortedError", <<>>)
      [] OTHER ->
            Ran("handleRecognitionError", speechData, "handleGenericError", <<>>)

\* calculateAdvancedConfidence(speechSegment, analysis): the factors are
\* evaluated in the order of the object literal; the second one calls
\* this.calculateAlternativeConsistency, which the class does not define
\* (neither does it define calculateSpeechClarity, estimateBackgroundNoise
\* and calculateReliability), so the weighted sum and its clamp
\* Math.max(0, Math.min(1, weightedScore)) are never reached
calculateAdvancedConfidence(speechSegment, givenAnalysis) ==
    [threw |-> "calculateAlternativeConsistency"]

\* what is kept of a run in lastOp
OpRecord(ran) == [name |-> ran.name, threw |-> ran.threw, callbacks |-> ran.callbacks]

Op(name, threw, callbacks) == [name |-> name, threw |-> threw, callbacks |-> callbacks]

-----------------------------------------------------------------------------
(* The engine after construction                                           *)

ConstructedEngine(recognition) ==
    /\ speechRecognition = recognition
    /\ isListening = FALSE
    /\ currentSession = NullSession
    /\ speechData = <<>>
    /\ recState = "inactive"
    /\ recResults = <<>>
    /\ queue = <<>>
    /\ nextId = 0
    /\ nextRid = 0
    /\ stopCalled = FALSE
    /\ routedFinals = <<>>
    /\ lastOp = Op("constructor", NoThrow, <<>>)
    /\ silence = 0

-----------------------------------------------------------------------------
(* SpecAlign: the comparison routines applied to a pair of texts           *)

Vocabulary == {W_The, W_cat, W_matP, W_dash}

TextsUpTo(n) == UNION {[1..k -> Vocabulary] : k \in 0..n}

\* "The cat sat on the mat" and the spoken texts of scenarios A, B and C
ScenarioReference == <<W_The, W_cat, W_sat, W_on, W_the, W_mat>>

ScenarioA == <<W_The, W_cat, W_sat, W_on, W_mat>>

ScenarioB == <<W_The, W_big, W_cat, W_sat, W_on, W_the, W_mat>>

ScenarioTexts == {ScenarioReference, ScenarioA, ScenarioB, <<>>}

AlignInputs ==
    (TextsUpTo(MaxTargetWords) \X TextsUpTo(MaxSpokenWords))
        \cup ({ScenarioReference} \X ScenarioTexts)

NoOutcome == [op |-> "none"]

\* no word pair and no segment are under examination
NoSegment == [transcript |-> <<>>, confidence |-> 0, duration |-> 0]

NoWordPair == wordA = <<>> /\ wordB = <<>>

NoAnalysis == [accuracy |-> 0, fluency |-> [overallScore |-> 0]]

NoScoring == segment = NoSegment /\ analysis = NoAnalysis

InitAlign ==
    /\ \E p \in AlignInputs : targetText = p[1] /\ spokenText = p[2]
    /\ outcome = NoOutcome
    /\ NoWordPair
    /\ NoScoring
    /\ ConstructedEngine("recognition")

RunAnalyzeWordLevel ==
    /\ outcome = NoOutcome
    /\ outcome' = [op     |-> "analyzeWordLevel",
                   result |-> analyzeWordLevel(targetText, spokenText)]
    /\ UNCHANGED <<targetText, spokenText>>
    /\ UNCHANGED <<machineVars, simVars, scoreVars>>

RunCalculateAccuracy ==
    /\ outcome = NoOutcome
    /\ outcome' = [op       |-> "calculateAccuracy",
                   accuracy |-> calculateAccuracy(targetText, spokenText)]
    /\ UNCHANGED <<targetText, spokenText>>
    /\ UNCHANGED <<machineVars, simVars, scoreVars>>

RunCompareTextWithSpeech ==
    /\ outcome = NoOutcome
    /\ LET r == compareTextWithSpeech(targetText, spokenText)
       IN  outcome' = [op         |-> "compareTextWithSpeech",
                       feedback   |-> r.feedback,
                       score      |-> r.score,
                       totalWords |-> r.totalWords,
                       accuracy   |-> sessionAccuracy(r.score, r.totalWords)]
    /\ UNCHANGED <<targetText, spokenText>>
    /\ UNCHANGED <<machineVars, simVars, scoreVars>>

RunAnalyzePronunciation ==
    /\ outcome = NoOutcome
    /\ outcome' = [op     |-> "analyzePronunciation",
                   result |-> analyzePronunciation(targetText, spokenText)]
    /\ UNCHANGED <<targetText, spokenText>>
    /\ UNCHANGED <<machineVars, simVars, scoreVars>>

NextAlign ==
    \/ RunAnalyzeWordLevel
    \/ RunCalculateAccuracy
    \/ RunCompareTextWithSpeech
    \/ RunAnalyzePronunciation

SpecAlign == InitAlign /\ [][NextAlign]_vars

-----------------------------------------------------------------------------
(* Spec: the engine, its caller and the recognizer                         *)

Init ==
    /\ targetText = <<>>
    /\ spokenText = <<>>
    /\ outcome = NoOutcome
    /\ NoWordPair
    /\ NoScoring
    /\ \E recognition \in {"recognition", Null} : ConstructedEngine(recognition)

\* SpeechRecognition.stop(): stop capturing; a recognizer that is not
\* capturing ignores the call
RecognitionStop(st) == IF st \in {"starting", "running"} THEN "stopping" ELSE st

\* the recognizer state stopListening leaves behind
stopListening == 
    IF speechRecognition # Null /\ isListening
    THEN RecognitionStop(recState)
    ELSE recState

\* startListening keeping the segments recorded before the call
speechDataAtStart_kept == speechData

\* this.speechData = [] of startListening
speechDataAtStart == <<>>

\* startListening(options)
StartListening(options) ==
    /\ nextId < MaxSessions
    /\ IF speechRecognition = Null
       THEN /\ lastOp' = Op("startListening", "Speech recognition not available", <<>>)
            /\ UNCHANGED <<engineVars, recognizerVars,
                           nextId, nextRid, stopCalled, routedFinals>>
       ELSE /\ currentSession' = [id               |-> nextId + 1,
                                  targetText       |-> options.targetText,
                                  realTimeAnalysis |-> options.realTimeAnalysis]
            /\ speechData' = speechDataAtStart
            /\ nextId' = nextId + 1
            /\ routedFinals' = <<>>
            /\ IF recState = "inactive"
               THEN /\ recState' = "starting"
                    /\ recResults' = <<>>
                    /\ stopCalled' = FALSE
                    /\ lastOp' = Op("startListening", NoThrow, <<>>)
               ELSE /\ lastOp' = Op("startListening", "InvalidStateError", <<>>)
                    /\ UNCHANGED <<recState, recResults, stopCalled>>
            /\ UNCHANGED <<speechRecognition, isListening, queue, nextRid>>
    /\ silence' = IF speechRecognition = Null THEN silence ELSE 0
    /\ UNCHANGED pureVars

\* getSessionData()
getSessionData ==
    [session |-> currentSession, speechData |-> speechData, isListening |-> isListening]

\* stopListening()
StopListening ==
    /\ recState' = stopListening
    /\ stopCalled' = TRUE
    /\ lastOp' = Op("stopListening", NoThrow, <<>>)
    /\ UNCHANGED <<engineVars, recResults, queue, nextId, nextRid, routedFinals>>
    /\ UNCHANGED <<pureVars, silence>>

\* cleanup()
Cleanup ==
    /\ recState' = IF isListening THEN stopListening ELSE recState
    /\ stopCalled' = (stopCalled \/ isListening)
    /\ currentSession' = NullSession
    /\ speechData' = <<>>
    /\ routedFinals' = <<>>
    /\ lastOp' = Op("cleanup", NoThrow, <<>>)
    /\ UNCHANGED <<speechRecognition, isListening, recResults, queue, nextId, nextRid>>
    /\ UNCHANGED <<pureVars, silence>>

Event(type, results, error) == [type |-> type, results |-> results, error |-> error]

\* recognition.onstart
OnStart ==
    /\ queue # <<>>
    /\ Head(queue).type = "start"
    /\ queue' = Tail(queue)
    /\ isListening' = TRUE
    /\ lastOp' = Op("onstart", NoThrow, <<"onListeningStart">>)
    /\ UNCHANGED <<speechRecognition, currentSession, speechData, recState,
                   recResults, nextId, nextRid, stopCalled, routedFinals>>
    /\ UNCHANGED <<pureVars, silence>>

\* recognition.onend
OnEnd ==
    /\ queue # <<>>
    /\ Head(queue).type = "end"
    /\ queue' = Tail(queue)
    /\ isListening' = FALSE
    /\ lastOp' = Op("onend", NoThrow, <<"onListeningEnd">>)
    /\ UNCHANGED <<speechRecognition, currentSession, speechData, recState,
                   recResults, nextId, nextRid, stopCalled, routedFinals>>
    /\ UNCHANGED <<pureVars, silence>>

\* recognition.onerror
OnError ==
    /\ queue # <<>>
    /\ Head(queue).type = "error"
    /\ queue' = Tail(queue)
    /\ LET ran == handleRecognitionError(Head(queue))
       IN  /\ speechData' = ran.speechData
           /\ lastOp' = OpRecord(ran)
    /\ UNCHANGED <<speechRecognition, isListening, currentSession, recState,
                   recResults, nextId, nextRid, stopCalled, routedFinals>>
    /\ UNCHANGED <<pureVars, silence>>

\* recognition.onresult
OnResult ==
    /\ queue # <<>>
    /\ Head(queue).type = "result"
    /\ queue' = Tail(queue)
    /\ LET event  == Head(queue)
           latest == event.results[Len(event.results)]
           ran    == processRecognitionResults(event)
       IN  /\ speechData' = ran.speechData
           /\ lastOp' = OpRecord(ran)
           /\ routedFinals' = IF latest.isFinal
                              THEN Append(routedFinals, latest.rid)
                              ELSE routedFinals
    /\ UNCHANGED <<speechRecognition, isListening, currentSession, recState,
                   recResults, nextId, nextRid, stopCalled>>
    /\ silence' = 0
    /\ UNCHANGED pureVars

Result(rid, isFinal, h) ==
    [rid |-> rid, isFinal |-> isFinal,
     transcript |-> h.transcript, confidence |-> h.confidence]

LastIsInterim == recResults # <<>> /\ ~recResults[Len(recResults)].isFinal

ReplaceLast(results, r) == [results EXCEPT ![Len(results)] = r]

\* the recognizer delivers its result list: the engine and the run are
\* untouched, the list is queued with a result event
Deliver(results) ==
    /\ Len(queue) < MaxQueue
    /\ recResults' = results
    /\ queue' = Append(queue, Event("result", results, ""))
    /\ UNCHANGED <<engineVars, recState, nextId, stopCalled, routedFinals, lastOp>>
    /\ UNCHANGED <<pureVars, silence>>

\* the 'start' event: the recognizer began to capture audio
RecognizerStarts ==
    /\ recState = "starting"
    /\ Len(queue) < MaxQueue
    /\ recState' = "running"
    /\ queue' = Append(queue, Event("start", <<>>, ""))
    /\ UNCHANGED <<engineVars, recResults, runVars>>
    /\ UNCHANGED <<pureVars, silence>>

\* a new result, interim or final at once
RecognizerNewResult(isFinal, h) ==
    /\ recState = "running"
    /\ ~LastIsInterim
    /\ nextRid < MaxResults
    /\ nextRid' = nextRid + 1
    /\ Deliver(Append(recResults, Result(nextRid + 1, isFinal, h)))

\* the interim result is replaced by a newer hypothesis of the same segment
RecognizerUpdatesInterim(h) ==
    /\ recState = "running"
    /\ LastIsInterim
    /\ Result(recResults[Len(recResults)].rid, FALSE, h) # recResults[Len(recResults)]
    /\ UNCHANGED nextRid
    /\ Deliver(ReplaceLast(recResults,
                           Result(recResults[Len(recResults)].rid, FALSE, h)))

\* the interim result becomes final; after stop() this is the result the
\* recognizer returns for the audio it already has
RecognizerFinalizes(h) ==
    /\ recState \in {"running", "stopping"}
    /\ LastIsInterim
    /\ UNCHANGED nextRid
    /\ Deliver(ReplaceLast(recResults,
                           Result(recResults[Len(recResults)].rid, TRUE, h)))

\* one event in which the interim result became final and the interim
\* result of the next segment is already in the list
RecognizerFinalizesAndGoesOn(h1, h2) ==
    /\ recState = "running"
    /\ LastIsInterim
    /\ nextRid < MaxResults
    /\ nextRid' = nextRid + 1
    /\ Deliver(Append(ReplaceLast(recResults,
                                  Result(recResults[Len(recResults)].rid, TRUE, h1)),
                      Result(nextRid + 1, FALSE, h2)))

\* an error event, followed by the end event that closes the recognition
RecognizerError(code) ==
    /\ recState \in {"starting", "running"}
    /\ Len(queue) < MaxQueue
    /\ recState' = "inactive"
    /\ queue' = queue \o <<Event("error", <<>>, code), Event("end", <<>>, "")>>
    /\ UNCHANGED <<engineVars, recResults, runVars>>
    /\ UNCHANGED <<pureVars, silence>>

\* the end event: after stop(), or when the recognizer gives up by itself
RecognizerEnds ==
    /\ recState \in {"running", "stopping"}
    /\ Len(queue) < MaxQueue
    /\ recState' = "inactive"
    /\ queue' = Append(queue, Event("end", <<>>, ""))
    /\ UNCHANGED <<engineVars, recResults, runVars>>
    /\ UNCHANGED <<pureVars, silence>>

Next ==
    \/ \E options \in SessionOptions : StartListening(options)
    \/ StopListening
    \/ Cleanup
    \/ OnStart
    \/ OnEnd
    \/ OnError
    \/ OnResult
    \/ RecognizerStarts
    \/ \E isFinal \in BOOLEAN, h \in Hypotheses : RecognizerNewResult(isFinal, h)
    \/ \E h \in Hypotheses : RecognizerUpdatesInterim(h)
    \/ \E h \in Hypotheses : RecognizerFinalizes(h)
    \/ \E h1 \in Hypotheses, h2 \in Hypotheses : RecognizerFinalizesAndGoesOn(h1, h2)
    \/ \E code \in ErrorCodes : RecognizerError(code)
    \/ RecognizerEnds

Spec == Init /\ [][Next]_vars

-----------------------------------------------------------------------------
(* SpecTimer: Spec with a clock                                            *)

\* one tick passes while the recognizer captures and produces nothing: the
\* engine arms no timer (no setTimeout anywhere) and the recognizer is
\* configured with continuous = true and no timeout, so nothing in the
\* engine runs
Tick ==
    /\ recState = "running"
    /\ silence <= NoSpeechTimeout
    /\ silence' = silence + 1
    /\ UNCHANGED <<engineVars, recognizerVars, runVars, pureVars>>

NextTimer ==
    \/ Next
    \/ Tick

SpecTimer == Init /\ [][NextTimer]_vars

-----------------------------------------------------------------------------
(* SpecSim: the similarity routines applied to a pair of words             *)

Alphabet == {"a", "b"}

WordsUpTo(n) == UNION {[1..k -> Alphabet] : k \in 0..n}

\* a five-letter word of the second passage and the same word with one
\* letter replaced
W_under == <<"u", "n", "d", "e", "r">>
W_ander == <<"a", "n", "d", "e", "r">>

WordPairs ==
    (WordsUpTo(MaxWordLen) \X WordsUpTo(MaxWordLen))
        \cup {<<W_under, W_ander>>, <<W_ander, W_under>>}

InitSim ==
    /\ \E p \in WordPairs : wordA = p[1] /\ wordB = p[2]
    /\ outcome = NoOutcome
    /\ targetText = <<>>
    /\ spokenText = <<>>
    /\ NoScoring
    /\ ConstructedEngine("recognition")

\* what a similarity routine yields on the pair, in both orders
BothWays(op, forward, backward) ==
    [op |-> op, forward |-> forward, backward |-> backward]

RunCalculateWordSimilarity ==
    /\ outcome = NoOutcome
    /\ outcome' = BothWays("calculateWordSimilarity",
                           calculateWordSimilarity(wordA, wordB),
                           calculateWordSimilarity(wordB, wordA))
    /\ UNCHANGED <<targetText, spokenText, machineVars, simVars, scoreVars>>

RunRPCalculateWordSimilarity ==
    /\ outcome = NoOutcome
    /\ outcome' = BothWays("RP_calculateWordSimilarity",
                           RP_calculateWordSimilarity(wordA, wordB),
                           RP_calculateWordSimilarity(wordB, wordA))
    /\ UNCHANGED <<targetText, spokenText, machineVars, simVars, scoreVars>>

RunCESCalculateWordSimilarity ==
    /\ outcome = NoOutcome
    /\ outcome' = BothWays("CES_calculateWordSimilarity",
                           CES_calculateWordSimilarity(wordA, wordB),
                           CES_calculateWordSimilarity(wordB, wordA))
    /\ UNCHANGED <<targetText, spokenText, machineVars, simVars, scoreVars>>

RunPACalculatePhoneticSimilarity ==
    /\ outcome = NoOutcome
    /\ outcome' = BothWays("PA_calculatePhoneticSimilarity",
                           PA_calculatePhoneticSimilarity(wordA, wordB),
                           PA_calculatePhoneticSimilarity(wordB, wordA))
    /\ UNCHANGED <<targetText, spokenText, machineVars, simVars, scoreVars>>

RunMLCalculatePhoneticSimilarity ==
    /\ outcome = NoOutcome
    /\ outcome' = BothWays("ML_calculatePhoneticSimilarity",
                           ML_calculatePhoneticSimilarity(wordA, wordB),
                           ML_calculatePhoneticSimilarity(wordB, wordA))
    /\ UNCHANGED <<targetText, spokenText, machineVars, simVars, scoreVars>>

\* compareWords(target, spoken) next to the similarity it classifies
RunCompareWords ==
    /\ outcome = NoOutcome
    /\ outcome' = [op         |-> "compareWords",
                   similarity |-> calculateWordSimilarity(wordA, wordB),
                   status     |-> compareWords(wordA, wordB)]
    /\ UNCHANGED <<targetText, spokenText, machineVars, simVars, scoreVars>>

\* the entry compareTextWithSpeech writes for a reference word and the word
\* spoken at its index
RunFeedbackEntry ==
    /\ outcome = NoOutcome
    /\ LET e == feedbackEntry(<<wordA>>, <<wordB>>, 1)
       IN  outcome' = [op         |-> "feedbackEntry",
                       present    |-> e.present,
                       similarity |-> e.similarity,
                       correct    |-> e.correct]
    /\ UNCHANGED <<targetText, spokenText, machineVars, simVars, scoreVars>>

NextSim ==
    \/ RunCalculateWordSimilarity
    \/ RunRPCalculateWordSimilarity
    \/ RunCESCalculateWordSimilarity
    \/ RunPACalculatePhoneticSimilarity
    \/ RunMLCalculatePhoneticSimilarity
    \/ RunCompareWords
    \/ RunFeedbackEntry

SpecSim == InitSim /\ [][NextSim]_vars

-----------------------------------------------------------------------------
(* SpecScore: the scoring routines applied to a segment and its analysis   *)

\* confidences and scores in hundredths
Confidences == {0, 50, 90, 100}

Accuracies == {0, 85, 100}

FluencyScores == {0, 80, 100}

\* durations in milliseconds; 0 stands for a segment without a duration
Durations == {0, 100, 600, 1000}

\* transcripts of 0 to MaxSegmentWords words separated by one blank
Transcripts == {[i \in 1..k |-> W_the] : k \in 0..MaxSegmentWords}

Segments ==
    {[transcript |-> t, confidence |-> c, duration |-> d] :
        t \in Transcripts, c \in Confidences, d \in Durations}

\* the speechSegment object of a segment under examination
SegmentObject(seg) ==
    [primary  |-> [transcript |-> seg.transcript, confidence |-> seg.confidence],
     duration |-> seg.duration]

\* transcript.split(' ').length: the empty string splits into one empty
\* string
SplitLength(transcript) == IF transcript = <<>> THEN 1 ELSE Len(transcript)

\* speedCategories, in the order of Object.entries
speedCategories ==
    <<[name |-> "very_slow", min |-> 0,   max |-> 80],
      [name |-> "slow",      min |-> 80,  max |-> 120],
      [name |-> "normal",    min |-> 120, max |-> 180],
      [name |-> "fast",      min |-> 180, max |-> 220],
      [name |-> "very_fast", min |-> 220, max |-> 1000]>>

\* wordsPerMinute >= range.min && wordsPerMinute < range.max
InRange(wordsPerMinute, range) ==
    FracGE(wordsPerMinute, range.min, 1) /\ ~FracGE(wordsPerMinute, range.max, 1)

\* AdvancedSpeechEngine.analyzeSpeechSpeed
analyzeSpeechSpeed(speechSegment) ==
    LET duration       == IF speechSegment.duration = 0
                          THEN 1000 ELSE speechSegment.duration
        wordCount      == SplitLength(speechSegment.primary.transcript)
        wordsPerMinute == Frac(wordCount * 60000, duration)
        found          == {k \in 1..Len(speedCategories) :
                              InRange(wordsPerMinute, speedCategories[k])}
        category       == CHOOSE k \in found : \A j \in found : k <= j
    IN  [wordsPerMinute |-> wordsPerMinute,
         category       |-> IF found # {} THEN speedCategories[category].name
                            ELSE "normal",
         isOptimal      |-> FracGE(wordsPerMinute, 120, 1)
                               /\ ~FracGT(wordsPerMinute, 180, 1)]

\* ConfidenceScorer.calculateConfidence, in hundredths:
\* speechSegment.primary.confidence || 0.8
calculateConfidence(speechSegment) ==
    IF speechSegment.primary.confidence = 0
    THEN 80 ELSE speechSegment.primary.confidence

\* the wordsPerMinute of calculateSessionStats
sessionWordsPerMinute(totalWords, duration) ==
    IF duration > 0 THEN Frac(totalWords * 60000, duration) ELSE Zero

Analyses ==
    {[accuracy |-> a, fluency |-> [overallScore |-> f]] :
        a \in Accuracies, f \in FluencyScores}

InitScore ==
    /\ segment \in Segments
    /\ analysis \in Analyses
    /\ outcome = NoOutcome
    /\ targetText = <<>>
    /\ spokenText = <<>>
    /\ NoWordPair
    /\ ConstructedEngine("recognition")

RunCalculateAdvancedConfidence ==
    /\ outcome = NoOutcome
    /\ outcome' = [op     |-> "calculateAdvancedConfidence",
                   result |-> calculateAdvancedConfidence(
                                  SpeechSegment([rid        |-> 1,
                                                 transcript |-> segment.transcript,
                                                 confidence |-> segment.confidence]),
                                  analysis)]
    /\ UNCHANGED <<targetText, spokenText, machineVars, simVars, scoreVars>>

RunAnalyzeSpeechSpeed ==
    /\ outcome = NoOutcome
    /\ outcome' = [op     |-> "analyzeSpeechSpeed",
                   result |-> analyzeSpeechSpeed(SegmentObject(segment))]
    /\ UNCHANGED <<targetText, spokenText, machineVars, simVars, scoreVars>>

RunCalculateConfidence ==
    /\ outcome = NoOutcome
    /\ outcome' = [op         |-> "calculateConfidence",
                   confidence |-> calculateConfidence(SegmentObject(segment))]
    /\ UNCHANGED <<targetText, spokenText, machineVars, simVars, scoreVars>>

\* calculateSessionStats at the end of a session on a reference of as many
\* words as the transcript, after the duration of the segment
RunCalculateSessionStats ==
    /\ outcome = NoOutcome
    /\ outcome' = [op     |-> "calculateSessionStats",
                   result |-> [wordsPerMinute |->
                                 sessionWordsPerMinute(Len(segment.transcript),
                                                       segment.duration)]]
    /\ UNCHANGED <<targetText, spokenText, machineVars, simVars, scoreVars>>

NextScore ==
    \/ RunCalculateAdvancedConfidence
    \/ RunAnalyzeSpeechSpeed
    \/ RunCalculateConfidence
    \/ RunCalculateSessionStats

SpecScore == InitScore /\ [][NextScore]_vars

-----------------------------------------------------------------------------
(* Claims about the aligner and the scorer, checked under SpecAlign        *)

TargetTokens == tokenizeText(targetText)

SpokenTokens == tokenizeText(spokenText)

RemoveAt(s, k) == [i \in 1..(Len(s) - 1) |-> IF i < k THEN s[i] ELSE s[i + 1]]

InsertAt(s, k, w) ==
    [i \in 1..(Len(s) + 1) |-> IF i < k THEN s[i] ELSE IF i = k THEN w ELSE s[i - 1]]

\* the routines that report an accuracy
ReportsAccuracy == outcome.op \in {"calculateAccuracy", "compareTextWithSpeech"}

\* the number of feedback entries written for reference index i
EntriesFor(i) ==
    Cardinality({k \in 1..Len(outcome.feedback) : outcome.feedback[k].index = i})

\* C1: the alignment holds every reference index exactly once (Correct,
\* Close, Similar or Missing) next to its Extra entries, so it is at least as
\* long as the reference.
C1_AlignmentCoversReference ==
    Len(TargetTokens) > 0 =>
        /\ outcome.op = "compareTextWithSpeech" =>
              /\ \A i \in 1..outcome.totalWords : EntriesFor(i) = 1
              /\ Len(outcome.feedback) >= outcome.totalWords
        /\ outcome.op = "analyzeWordLevel" =>
              /\ outcome.result.threw = ""
              /\ \A i \in 1..Len(TargetTokens) :
                    \E k \in 1..Len(outcome.result.entries) :
                        /\ outcome.result.entries[k].index = i
                        /\ \/ outcome.result.entries[k].status
                                  \in {"perfect", "close", "similar"}
                           \/ outcome.result.entries[k].spokenWord = <<>>
              /\ Len(outcome.result.entries) >= Len(TargetTokens)

\* C2: a transcript equal to the reference after normalisation has accuracy
\* exactly 1 and neither a Missing nor an Extra entry.
C2_IdenticalIsPerfect ==
    (TargetTokens = SpokenTokens /\ Len(TargetTokens) > 0) =>
        /\ ReportsAccuracy => FracEQ(outcome.accuracy, 1, 1)
        /\ outcome.op = "compareTextWithSpeech" =>
              Len(outcome.feedback) = outcome.totalWords

\* every raw word of both texts holds a token (no word is only punctuation)
PlainTexts ==
    /\ Len(TargetTokens) = Len(targetText)
    /\ Len(SpokenTokens) = Len(spokenText)

\* the transcript is the reference with exactly one token dropped
OneTokenDropped ==
    /\ PlainTexts
    /\ Len(TargetTokens) > 0
    /\ \E k \in 1..Len(TargetTokens) : SpokenTokens = RemoveAt(TargetTokens, k)

\* C3: with one token dropped there is exactly one Missing entry, every
\* other reference token is matched and the accuracy is (n-1)/n.
C3_OneDroppedToken ==
    (OneTokenDropped /\ outcome.op = "compareTextWithSpeech") =>
        /\ FracEQ(outcome.accuracy, Len(TargetTokens) - 1, Len(TargetTokens))
        /\ outcome.score = Len(TargetTokens) - 1

\* a token that resembles no token of the reference (similarity <= 0.5)
Unrelated(w) ==
    \A i \in 1..Len(TargetTokens) :
        ~FracGT(calculateWordSimilarity(TargetTokens[i], w), 1, 2)

\* the transcript is the reference with exactly one unrelated token inserted
OneTokenInserted ==
    /\ PlainTexts
    /\ Len(TargetTokens) > 0
    /\ Len(SpokenTokens) = Len(TargetTokens) + 1
    /\ \E k \in 1..Len(SpokenTokens) :
          /\ Unrelated(SpokenTokens[k])
          /\ SpokenTokens = InsertAt(TargetTokens, k, SpokenTokens[k])

\* C4: with one unrelated token inserted there is exactly one Extra entry,
\* every reference token is still Correct and the accuracy is 1.
C4_OneInsertedToken ==
    (OneTokenInserted /\ outcome.op = "compareTextWithSpeech") =>
        /\ FracEQ(outcome.accuracy, 1, 1)
        /\ outcome.score = Len(TargetTokens)

\* C5: an empty transcript against a reference of n > 0 tokens gives exactly
\* n entries, all Missing, and accuracy 0.
C5_EmptyHypothesis ==
    (SpokenTokens = <<>> /\ Len(TargetTokens) > 0) =>
        /\ ReportsAccuracy => FracEQ(outcome.accuracy, 0, 1)
        /\ outcome.op = "compareTextWithSpeech" =>
              /\ Len(outcome.feedback) = Len(TargetTokens)
              /\ \A k \in 1..Len(outcome.feedback) : ~outcome.feedback[k].correct

-----------------------------------------------------------------------------
(* Claims about the session, checked under Spec                            *)

\* the result ids of the recorded segments, in the order of speechData
RecordedRids == [i \in 1..Len(speechData) |-> speechData[i].rid]

\* C6: finalizations are serialized and in order: the recorded history is
\* exactly the final hypotheses handed to finalization since the session
\* began, in the order of their arrival, which is the order in which the
\* recognizer produced them.
C6_HistoryInArrivalOrder ==
    /\ RecordedRids = routedFinals
    /\ \A i \in 1..Len(speechData) : \A j \in 1..Len(speechData) :
          i < j => speechData[i].rid < speechData[j].rid

\* two final hypotheses are recorded while a further result is buffered
C6_Witness ==
    /\ Len(speechData) >= 2
    /\ queue # <<>>
    /\ Head(queue).type = "result"

\* the step that dispatches the result event at the head of the queue
ResultDispatched ==
    /\ queue # <<>>
    /\ Head(queue).type = "result"
    /\ queue' = Tail(queue)

InterimDispatched ==
    /\ ResultDispatched
    /\ ~Head(queue).results[Len(Head(queue).results)].isFinal

\* C7: handling an interim hypothesis leaves the recorded history as it is,
\* whatever the state, also after a final hypothesis has been recorded.
C7_InterimNeverWritesHistory ==
    [][InterimDispatched => speechData' = speechData]_vars

\* an interim hypothesis was handled while the history holds a final one
C7_Witness ==
    /\ lastOp.name = "processInterimResult"
    /\ Len(speechData) >= 1

\* C8: stop() never throws and leaves the session stopped (the recognizer no
\* longer starting or capturing) in whatever state it is called.
C8_StopLeavesStopped ==
    /\ lastOp.name = "stopListening" => lastOp.threw = NoThrow
    /\ stopCalled => recState \in {"stopping", "inactive"}

\* C9: once stop() has been called no hypothesis event is processed.
C9_NothingProcessedAfterStop ==
    [][~(stopCalled /\ ResultDispatched)]_vars

\* the session state of the specification, read off the engine: Idle without
\* a session, Listening while the recognizer of the session is starting or
\* capturing, Stopped otherwise (the engine keeps neither an Error nor a
\* Finalizing state)
SessionState ==
    IF currentSession = NullSession THEN "Idle"
    ELSE IF recState \in {"starting", "running"} THEN "Listening"
    ELSE "Stopped"

\* C10: the session state changes along the specified transitions only:
\* start leads from Idle to Listening and is accepted in Idle only; every
\* other change ends in Stopped (stop, source error) or in Idle (reset).
C10_OnlySpecifiedTransitions ==
    [][/\ SessionState' # SessionState =>
             \/ /\ SessionState = "Idle"
                /\ SessionState' = "Listening"
                /\ lastOp'.name = "startListening"
             \/ SessionState' = "Stopped"
             \/ SessionState' = "Idle"
       /\ nextId' # nextId => SessionState = "Idle"]_vars

\* C12: start() with an empty reference is rejected before anything happens:
\* no session is ever created on a reference without tokens (and so the
\* recognizer is never started for one).
C12_EmptyReferenceRejected ==
    currentSession # NullSession => tokenizeText(currentSession.targetText) # <<>>

\* the step that dispatches the error event at the head of the queue
ErrorDispatched ==
    /\ queue # <<>>
    /\ Head(queue).type = "error"
    /\ queue' = Tail(queue)

\* the error handler ran to its end and reported the reason to the caller
ReasonReported(op) ==
    /\ op.name = "handleRecognitionError"
    /\ op.threw = NoThrow
    /\ \E k \in 1..Len(op.callbacks) : op.callbacks[k] = "onRecognitionError"

\* C13: every source error is reported with its reason, and the session it
\* put into Error is not started again before a reset or a stop.
C13_ErrorReportedAndHeld ==
    [][/\ ErrorDispatched => ReasonReported(lastOp')
       /\ lastOp.name = "handleRecognitionError" => nextId' = nextId]_vars

\* C14: handling a source error leaves the session and the recorded history
\* as they were: getSessionData returns after the error what it returned
\* before it.
C14_ErrorKeepsResults ==
    [][ErrorDispatched =>
          /\ getSessionData'.session = getSessionData.session
          /\ getSessionData'.speechData = getSessionData.speechData]_vars

\* a source error was handled in a session that had recorded a segment
C14_Witness ==
    /\ lastOp.name = "handleRecognitionError"
    /\ currentSession # NullSession
    /\ Len(getSessionData.speechData) >= 1

\* C15: a failing analyzer is isolated: finalizing a hypothesis never lets
\* the failure escape and still delivers the analysis to the caller
\* (onSpeechAnalyzed).
C15_AnalyzerFailureIsolated ==
    lastOp.name = "processFinalResult" =>
        /\ lastOp.threw = NoThrow
        /\ lastOp.callbacks = <<"onSpeechAnalyzed">>

\* C16: the reference of a session is fixed while the session listens: as
\* long as the recognizer started for it is starting or capturing, the
\* reference the hypotheses are compared against changes by reset only.
C16_ReferenceFixedWhileListening ==
    [][(/\ SessionState = "Listening"
        /\ tokenizeText(currentSession.targetText) # <<>>
        /\ tokenizeText(currentSession'.targetText) # <<>>
        /\ currentSession'.targetText # currentSession.targetText)
          => lastOp'.name = "cleanup"]_vars

\* C17: reset leaves the session Idle with the reference and the history
\* cleared and no recognizer listening: right after reset the recognizer is
\* neither starting nor capturing, and as long as there is no session the
\* history stays empty.
C17_ResetClearsForGood ==
    /\ lastOp.name = "cleanup" => recState \notin {"starting", "running"}
    /\ currentSession = NullSession => speechData = <<>>

-----------------------------------------------------------------------------
(* Claims about the engine, checked under SpecTimer                        *)

\* C11: when no hypothesis has arrived within the configured timeout window
\* the session has left Listening for Error(NoSpeechDetected): it is never
\* still listening (on a non-empty reference) after more than
\* NoSpeechTimeout ticks without a hypothesis.
C11_NoSpeechTimeoutEnforced ==
    (silence > NoSpeechTimeout /\ tokenizeText(currentSession.targetText) # <<>>)
        => SessionState # "Listening"

-----------------------------------------------------------------------------
(* Claims about the similarity routines, checked under SpecSim             *)

SimilarityRoutines ==
    {"calculateWordSimilarity", "RP_calculateWordSimilarity",
     "CES_calculateWordSimilarity", "PA_calculatePhoneticSimilarity",
     "ML_calculatePhoneticSimilarity"}

\* C18: every similarity routine is symmetric: on a pair of tokens (words
\* that are not both empty) it yields the same value in both orders.
C18_SimilaritySymmetric ==
    (outcome.op \in SimilarityRoutines /\ (wordA # <<>> \/ wordB # <<>>))
        => FracEQ(outcome.forward, outcome.backward.num, outcome.backward.den)

\* the engine's routine ran on two different words of different lengths that
\* have something in common
C18_Witness ==
    /\ outcome.op = "calculateWordSimilarity"
    /\ Len(wordA) < Len(wordB)
    /\ wordA # <<>>
    /\ FracGT(outcome.forward, 0, 1)
    /\ ~FracEQ(outcome.forward, 1, 1)

\* C20: the thresholds are inclusive: a similarity of at least 0.8 is
\* classified perfect or close and counts as a match, a similarity of at least
\* 0.5 and below 0.8 is classified similar.
C20_InclusiveThresholds ==
    /\ outcome.op = "compareWords" =>
          /\ FracGE(outcome.similarity, 4, 5) =>
                outcome.status \in {"perfect", "close"}
          /\ (FracGE(outcome.similarity, 1, 2) /\ ~FracGE(outcome.similarity, 4, 5)) =>
                outcome.status = "similar"
    /\ (outcome.op = "feedbackEntry" /\ outcome.present) =>
          (outcome.correct <=> FracGE(outcome.similarity, 4, 5))

-----------------------------------------------------------------------------
(* Claims about the scoring routines, checked under SpecScore              *)

\* C19: whatever accuracy, confidence and fluency the scorer receives, it
\* yields an overall weighted score, and that score lies within [0, 1].
C19_WeightedScoreInRange ==
    outcome.op = "calculateAdvancedConfidence" =>
        /\ outcome.result.threw = NoThrow
        /\ FracGE(outcome.result.overallConfidence, 0, 1)
        /\ ~FracGT(outcome.result.overallConfidence, 1, 1)

-----------------------------------------------------------------------------
(* Further claims about the similarity routines, checked under SpecSim     *)

\* the edit distance by its recurrence on the last characters
RECURSIVE EditDistance(_, _)
EditDistance(a, b) ==
    IF a = <<>> THEN Len(b)
    ELSE IF b = <<>> THEN Len(a)
    ELSE LET a1 == SubSeq(a, 1, Len(a) - 1)
             b1 == SubSeq(b, 1, Len(b) - 1)
         IN  Min3(EditDistance(a1, b) + 1,
                  EditDistance(a, b1) + 1,
                  EditDistance(a1, b1) + (IF a[Len(a)] = b[Len(b)] THEN 0 ELSE 1))

\* 1 - levenshtein(a, b) / max(len(a), len(b)), and 1 for two empty strings
SpecifiedSimilarity(a, b) ==
    IF a = <<>> /\ b = <<>>
    THEN One
    ELSE Frac(Max2(Len(a), Len(b)) - EditDistance(a, b), Max2(Len(a), Len(b)))

\* C21: every similarity routine computes 1 - levenshtein/max(len), 1 for
\* two empty strings, and its result lies within [0, 1].
C21_SameSimilarityEverywhere ==
    outcome.op \in SimilarityRoutines =>
        /\ FracEQ(outcome.forward, SpecifiedSimilarity(wordA, wordB).num,
                                   SpecifiedSimilarity(wordA, wordB).den)
        /\ FracGE(outcome.forward, 0, 1)
        /\ ~FracGT(outcome.forward, 1, 1)

-----------------------------------------------------------------------------
(* Further claims about the aligner, checked under SpecAlign               *)

\* the cost of pairing two tokens of similarity f, in sixtieths of the cost
\* of an insertion or a deletion: nothing from 0.8 on, else 1 - f
PairingCost(f) ==
    IF FracGE(f, 4, 5) THEN 0 ELSE (60 * (f.den - f.num)) \div f.den

\* the least cost of an alignment of the token sequences t and s
RECURSIVE MinAlignmentCost(_, _)
MinAlignmentCost(t, s) ==
    IF t = <<>> THEN 60 * Len(s)
    ELSE IF s = <<>> THEN 60 * Len(t)
    ELSE LET t1 == SubSeq(t, 1, Len(t) - 1)
             s1 == SubSeq(s, 1, Len(s) - 1)
         IN  Min3(MinAlignmentCost(t1, s) + 60,
                  MinAlignmentCost(t, s1) + 60,
                  MinAlignmentCost(t1, s1)
                      + PairingCost(SpecifiedSimilarity(t[Len(t)], s[Len(s)])))

RECURSIVE PairingCosts(_)
PairingCosts(feedback) ==
    IF feedback = <<>> THEN 0
    ELSE PairingCost(Head(feedback).similarity) + PairingCosts(Tail(feedback))

\* the cost of the alignment compareTextWithSpeech returned: its entries
\* pair a reference token with a spoken one, a reference token without an
\* entry is left out and so is a spoken token beyond the reference
ReturnedAlignmentCost ==
    PairingCosts(outcome.feedback)
        + 60 * (Len(TargetTokens) - Len(outcome.feedback))
        + 60 * Max2(0, Len(SpokenTokens) - Len(TargetTokens))

\* C22: the alignment returned is a minimum-cost path of the token edit
\* distance (pairing costs nothing from similarity 0.8 on and 1 - sim below,
\* insertion and deletion cost 1): the word-level analysis returns one, and
\* what the comparison returns costs no more than the cheapest alignment.
C22_AlignmentIsMinimumCost ==
    (PlainTexts /\ Len(TargetTokens) > 0) =>
        /\ outcome.op = "analyzeWordLevel" => outcome.result.threw = ""
        /\ outcome.op = "compareTextWithSpeech" =>
              ReturnedAlignmentCost = MinAlignmentCost(TargetTokens, SpokenTokens)

-----------------------------------------------------------------------------
(* Further claims about the scoring routines, checked under SpecScore      *)

\* (token count / duration in ms) * 60000 of the segment under examination
RawWordsPerMinute == Frac(Len(segment.transcript) * 60000, segment.duration)

\* C23: the reported words per minute are (token count / duration) * 60000
\* clamped to [0, 400], and a raw value above 400 is not reported as a
\* normal pace.
C23_WordsPerMinuteClamped ==
    (outcome.op \in {"analyzeSpeechSpeed", "calculateSessionStats"}
        /\ segment.transcript # <<>>
        /\ segment.duration > 0) =>
        /\ outcome.result.wordsPerMinute.den > 0
        /\ IF FracGT(RawWordsPerMinute, 400, 1)
           THEN FracEQ(outcome.result.wordsPerMinute, 400, 1)
           ELSE FracEQ(outcome.result.wordsPerMinute,
                       RawWordsPerMinute.num, RawWordsPerMinute.den)
        /\ (outcome.op = "analyzeSpeechSpeed" /\ FracGT(RawWordsPerMinute, 400, 1)) =>
              (outcome.result.category # "normal" /\ ~outcome.result.isOptimal)

\* C24: the confidence reported for a segment is the confidence of its
\* primary hypothesis or less, so 0 is reported as 0.
C24_ConfidenceOnlyLowered ==
    outcome.op = "calculateConfidence" => outcome.confidence <= segment.confidence

\* the speed categories whose range holds the reported words per minute
CategoriesHolding ==
    {k \in 1..Len(speedCategories) :
        InRange(outcome.result.wordsPerMinute, speedCategories[k])}

\* C30: every pace in [0, 1000) falls in exactly one speed category, which
\* is the one reported, and isOptimal is true exactly when that category is
\* 'normal'.
C30_CategoriesAgreeWithOptimal ==
    (outcome.op = "analyzeSpeechSpeed"
        /\ FracGE(outcome.result.wordsPerMinute, 0, 1)
        /\ ~FracGE(outcome.result.wordsPerMinute, 1000, 1)) =>
        /\ Cardinality(CategoriesHolding) = 1
        /\ \A k \in CategoriesHolding :
              outcome.result.category = speedCategories[k].name
        /\ outcome.result.isOptimal <=> (outcome.result.category = "normal")

-----------------------------------------------------------------------------
(* Further claims about the session, checked under Spec                    *)

\* how many recorded segments stem from the result rid
TimesRecorded(data, rid) ==
    Cardinality({i \in 1..Len(data) : data[i].rid = rid})

\* the session is the first one and was not reset: nothing recorded since
\* the recognizer started has been cleared
FirstSession == nextId = 1 /\ currentSession # NullSession

\* C25: every final result delivered during a session is recorded exactly
\* once and announced by one onSpeechAnalyzed: once a result event has been
\* handled, each final result of its cumulative list has exactly one
\* segment in speechData, and handling a final result fires the callback.
C25_EveryFinalRecordedOnce ==
    [][(ResultDispatched /\ FirstSession) =>
          /\ \A k \in 1..Len(Head(queue).results) :
                Head(queue).results[k].isFinal =>
                    TimesRecorded(speechData', Head(queue).results[k].rid) = 1
          /\ lastOp'.name = "processFinalResult" =>
                lastOp'.callbacks = <<"onSpeechAnalyzed">>]_vars

\* C26: whenever a result event is handled there is a session: no result
\* handler runs on a null currentSession.
C26_SessionPresentWhenResultHandled ==
    [][ResultDispatched => currentSession # NullSession]_vars

\* C27: a stopListening() issued after a successful startListening() stops
\* the recognizer whatever the interleaving with onstart: the recognizer is
\* never capturing once stopListening() has been called since the last
\* successful startListening().
C27_StopAlwaysStops ==
    ~(stopCalled /\ recState = "running")

\* the step is a startListening() that threw
StartThrew ==
    /\ lastOp'.name = "startListening"
    /\ lastOp'.threw # NoThrow
    /\ \/ nextId' # nextId
       \/ lastOp'.threw = "Speech recognition not available"

\* C28: a startListening() that throws leaves currentSession and speechData
\* as they were before the call.
C28_FailedStartChangesNothing ==
    [][StartThrew => (currentSession' = currentSession /\ speechData' = speechData)]_vars

\* data continues the sequence before: nothing was removed, reordered or
\* rewritten
Extends(data, before) ==
    /\ Len(data) >= Len(before)
    /\ SubSeq(data, 1, Len(before)) = before

\* C29: between two startListening/cleanup calls speechData is append-only,
\* and every segment in it stems from a final result handled since the most
\* recent startListening (or cleanup): no segment of an earlier session is
\* in the current session's data.
C29_HistoryAppendOnlyPerSession ==
    [][/\ (nextId' = nextId /\ lastOp'.name # "cleanup") =>
             Extends(speechData', speechData)
       /\ \A i \in 1..Len(speechData') :
             \E k \in 1..Len(routedFinals') : routedFinals'[k] = speechData'[i].rid]_vars

\* the second session has recorded a segment of its own after the first
\* session had recorded one
C29_Witness ==
    /\ nextId = 2
    /\ Len(speechData) >= 1
    /\ speechData[1].rid >= 2
    /\ lastOp.name = "processFinalResult"

====
